---- MODULE Spec2Model ----
(***************************************************************************)
(* Model of the minesweeper field (src/src/game.rs) and of the event loop  *)
(* that drives it (src/src/main.rs).                                        *)
(*                                                                         *)
(* Pointer coordinates are f64 in the program.  Here a coordinate is an     *)
(* integer number of HALF pixels, so that 17 stands for 8.5 px and the cast *)
(* `as u32` (truncation towards zero, saturating) is not the identity.      *)
(***************************************************************************)
EXTENDS Integers, Sequences, FiniteSets, TLC

VARIABLES cells, size, n_bombs, n_hidden, mouse, event, status

vars == <<cells, size, n_bombs, n_hidden, mouse, event, status>>

(***************************************************************************)
(* Bounds of the model.                                                    *)
(***************************************************************************)
MaxCells == 6
MaxBombs == 3
MaxBombs3x3 == 2
MaxSide == 3
MaxFree == 1

(***************************************************************************)
(* Program constants.                                                      *)
(***************************************************************************)
CELL_SIZE == <<16, 16>>

(***************************************************************************)
(* enum CellState and struct Cell.                                         *)
(***************************************************************************)
Value(n) == [tag |-> "Value", n |-> n]
Empty == [tag |-> "Empty", n |-> 0]
Bomb == [tag |-> "Bomb", n |-> 0]
DeathBomb == [tag |-> "DeathBomb", n |-> 0]

Cell(st, hid) == [state |-> st, hidden |-> hid]

(* The keys inserted by the loop `for idx in 0..(size.0 * size.1)`.        *)
Coords(sz) == {<<idx % sz[1], idx \div sz[1]>> : idx \in 0..(sz[1] * sz[2] - 1)}

Min(a, b) == IF a < b THEN a ELSE b
Max(a, b) == IF a > b THEN a ELSE b

(* adjacent_coords with the upper x bound one short, `(x + 1).min(..)`.    *)
adjacent_coords_ShortRow(sz, x, y) ==
  LET ylo == Max(y - 1, 0)
      yhi == Min(y + 2, sz[2])
      xlo == Max(x - 1, 0)
      xhi == Min(x + 1, sz[1])
      bw  == xhi - xlo
      bh  == yhi - ylo
      box == [i \in 1..(bw * bh) |-> <<xlo + ((i - 1) % bw), ylo + ((i - 1) \div bw)>>]
  IN  SelectSeq(box, LAMBDA p : p # <<x, y>>)

(* adjacent_coords with the loops nested the other way round, x outside.  *)
adjacent_coords_ColumnMajor(sz, x, y) ==
  LET ylo == Max(y - 1, 0)
      yhi == Min(y + 2, sz[2])
      xlo == Max(x - 1, 0)
      xhi == Min(x + 2, sz[1])
      bw  == xhi - xlo
      bh  == yhi - ylo
      box == [i \in 1..(bw * bh) |-> <<xlo + ((i - 1) \div bh), ylo + ((i - 1) % bh)>>]
  IN  SelectSeq(box, LAMBDA p : p # <<x, y>>)

(* fn adjacent_coords: the clipped 3x3 box around (x, y) in row-major      *)
(* order, the centre skipped.                                              *)
adjacent_coords(sz, x, y) ==
  LET ylo == Max(y - 1, 0)
      yhi == Min(y + 2, sz[2])
      xlo == Max(x - 1, 0)
      xhi == Min(x + 2, sz[1])
      bw  == xhi - xlo
      bh  == yhi - ylo
      box == [i \in 1..(bw * bh) |-> <<xlo + ((i - 1) % bw), ylo + ((i - 1) \div bw)>>]
  IN  SelectSeq(box, LAMBDA p : p # <<x, y>>)

(* fn adjacent_cells: the cells at adjacent_coords, in the same order.     *)
adjacent_cells(cs, sz, x, y) ==
  LET v == adjacent_coords(sz, x, y)
  IN  [i \in 1..Len(v) |-> cs[v[i]]]

(* `.filter(|c| c.state == CellState::Bomb).count()`                        *)
CountBombs(seq) == Cardinality({i \in 1..Len(seq) : seq[i].state = Bomb})

(* rand::seq::index::sample(rng, length, amount): `amount` distinct        *)
(* indices of 0..length, any such choice; only `contains` is used on the   *)
(* result, so it is kept as a set.                                         *)
RECURSIVE KSubsets(_, _)
KSubsets(n, k) ==
  IF k = 0 THEN {{}}
  ELSE IF k > n THEN {}
  ELSE KSubsets(n - 1, k) \cup {s \cup {n - 1} : s \in KSubsets(n - 1, k - 1)}

sample(length, amount) == KSubsets(length, amount)

(* `sample` asserts amount <= length and panics otherwise.                 *)
SamplePanics(length, amount) == amount > length

(* The map Field::new holds when it calls `sample`: HashMap::new(), no     *)
(* cell inserted yet.                                                      *)
CellsAtSample_AfterInsertLoop(sz) ==
  [c \in Coords(sz) |-> [state |-> [tag |-> "Empty", n |-> 0], hidden |-> TRUE]]

CellsAtSample(sz) == << >>

(* The first loop with the key computed from the height, not the width.   *)
PlaceBombs_WrongStride(sz, bomb_indices) ==
  [c \in Coords(sz) |->
     [state |-> IF (c[2] * sz[2] + c[1]) \in bomb_indices THEN Bomb ELSE Empty,
      hidden |-> TRUE]]

(* The first loop of Field::new: Bomb on the sampled indices, Empty        *)
(* elsewhere, every cell hidden.                                           *)
PlaceBombs(sz, bomb_indices) ==
  [c \in Coords(sz) |->
     Cell(IF (c[2] * sz[1] + c[1]) \in bomb_indices THEN Bomb ELSE Empty, TRUE)]

(* The second loop of Field::new, `for y .. for x ..`, from index idx on:  *)
(* a non-bomb cell with n > 0 Bomb neighbours becomes Value(n as u8).      *)
RECURSIVE CountPass(_, _, _)
CountPass(cs, sz, idx) ==
  IF idx >= sz[1] * sz[2] THEN cs
  ELSE LET x == idx % sz[1]
           y == idx \div sz[1]
           n == CountBombs(adjacent_cells(cs, sz, x, y))
       IN  IF cs[<<x, y>>].state = Bomb THEN CountPass(cs, sz, idx + 1)
           ELSE IF n > 0
                THEN CountPass([cs EXCEPT ![<<x, y>>].state = Value(n % 256)], sz, idx + 1)
                ELSE CountPass(cs, sz, idx + 1)

(* Field::new for one outcome of the sampling.                             *)
NewCells(sz, bomb_indices) == CountPass(PlaceBombs(sz, bomb_indices), sz, 0)

(* `n_hidden -= 2`.                                                        *)
Decrement_Twice(n) == n - 2

(* `n_hidden -= 1` on a usize.  Executed at 0 it underflows (a panic in a   *)
(* debug build, 2^64 - 1 in a release build); 2^64 is beyond the model     *)
(* checker's integers, so a negative k stands for the wrapped 2^64 + k.    *)
Decrement(n) == n - 1

(* fn reveal, on f = [cells, n_hidden, entered]; (x, y) is a key of cells. *)
(* f.entered only records, in order, the cells for which the call found    *)
(* `c.hidden` true and ran the body of the `if`.                           *)
RECURSIVE reveal(_, _, _, _), RevealEach(_, _, _)

(* reveal with the guard `if c.hidden || c.state is Value(_)`.             *)
reveal_WrongGuard(f, sz, x, y) ==
  IF ~f.cells[<<x, y>>].hidden /\ f.cells[<<x, y>>].state.tag # "Value" THEN f
  ELSE LET f1 == [f EXCEPT !.cells[<<x, y>>].hidden = FALSE,
                           !.entered = Append(@, <<x, y>>)]
           f2 == IF f1.cells[<<x, y>>].state = Empty
                 THEN RevealEach(f1, sz, adjacent_coords(sz, x, y))
                 ELSE f1
       IN  [f2 EXCEPT !.n_hidden = Decrement(f2.n_hidden)]

(* reveal without the loop over the neighbours.                            *)
reveal_NoCascade(f, sz, x, y) ==
  IF ~f.cells[<<x, y>>].hidden THEN f
  ELSE [f EXCEPT !.cells[<<x, y>>].hidden = FALSE,
                 !.entered = Append(@, <<x, y>>),
                 !.n_hidden = Decrement(@)]

(* reveal cascading from every non-bomb cell, Value(n) included.           *)
reveal_CascadeValues(f, sz, x, y) ==
  IF ~f.cells[<<x, y>>].hidden THEN f
  ELSE LET f1 == [f EXCEPT !.cells[<<x, y>>].hidden = FALSE,
                           !.entered = Append(@, <<x, y>>)]
           f2 == IF f1.cells[<<x, y>>].state.tag \in {"Empty", "Value"}
                 THEN RevealEach(f1, sz, adjacent_coords(sz, x, y))
                 ELSE f1
       IN  [f2 EXCEPT !.n_hidden = Decrement(f2.n_hidden)]

reveal(f, sz, x, y) ==
  IF ~f.cells[<<x, y>>].hidden THEN f
  ELSE LET f1 == [f EXCEPT !.cells[<<x, y>>].hidden = FALSE,
                           !.entered = Append(@, <<x, y>>)]
           f2 == IF f1.cells[<<x, y>>].state = Empty
                 THEN RevealEach(f1, sz, adjacent_coords(sz, x, y))
                 ELSE f1
       IN  [f2 EXCEPT !.n_hidden = Decrement(f2.n_hidden)]

(* `for (x, y) in self.adjacent_coords(x, y) { self.reveal(x, y) }`; the   *)
(* call on a cell that is no longer hidden returns at once (`if c.hidden`  *)
(* fails) and is stepped over here.                                        *)
RevealEach(f, sz, v) ==
  IF v = <<>> THEN f
  ELSE IF ~f.cells[Head(v)].hidden THEN RevealEach(f, sz, Tail(v))
  ELSE RevealEach(reveal(f, sz, Head(v)[1], Head(v)[2]), sz, Tail(v))

(* lose unhiding the bombs only; win unhiding nothing.                     *)
lose_BombsOnly(cs) ==
  [c \in DOMAIN cs |->
     IF cs[c].state \in {Bomb, DeathBomb} THEN [cs[c] EXCEPT !.hidden = FALSE] ELSE cs[c]]

win_Nothing(cs) == cs

(* lose with `c.hidden = !c.hidden`.                                       *)
lose_Toggles(cs) == [c \in DOMAIN cs |-> [cs[c] EXCEPT !.hidden = ~@]]

(* fn lose and fn win: every cell unhidden, nothing else written.          *)
lose(cs) == [c \in DOMAIN cs |-> [cs[c] EXCEPT !.hidden = FALSE]]
win(cs) == [c \in DOMAIN cs |-> [cs[c] EXCEPT !.hidden = FALSE]]

(* fn render, the index into self.textures with `4 + usize::from(n)`.      *)
TextureIndex_OneTooHigh(cell) ==
  IF cell.hidden THEN 0
  ELSE CASE cell.state.tag = "DeathBomb" -> 1
         [] cell.state.tag = "Bomb" -> 2
         [] cell.state.tag = "Empty" -> 3
         [] cell.state.tag = "Value" -> 4 + cell.state.n

(* fn render: the index into self.textures chosen for a cell.  (For n = 0  *)
(* `usize::from(n) - 1` would underflow; the result is then below 4.)      *)
TextureIndex(cell) ==
  IF cell.hidden THEN 0
  ELSE CASE cell.state.tag = "DeathBomb" -> 1
         [] cell.state.tag = "Bomb" -> 2
         [] cell.state.tag = "Empty" -> 3
         [] cell.state.tag = "Value" -> 4 + (cell.state.n - 1)

(* `v as u32` for an f64 v given in half pixels: truncation towards zero,  *)
(* negative values give 0.  (Values past u32::MAX saturate; the pointer    *)
(* positions of the model stay far below.)                                 *)
F64AsU32(v) == IF v < 0 THEN 0 ELSE v \div 2

(* The cell coordinate a left click addresses.                             *)
ClickCoord(m) == <<F64AsU32(m[1]) \div CELL_SIZE[1], F64AsU32(m[2]) \div CELL_SIZE[2]>>

(***************************************************************************)
(* Inputs.                                                                 *)
(***************************************************************************)
Sizes == {sz \in (1..MaxCells) \X (1..MaxCells) : sz[1] * sz[2] <= MaxCells}

(* The 3x3 grid of the worked examples, the smallest one with an interior  *)
(* cell; it takes bomb counts up to MaxBombs3x3.                           *)
Grid3x3 == <<3, 3>>

(* Grids of up to MaxSide x MaxSide cells, constructed without bombs.      *)
OpenSizes == (1..MaxSide) \X (1..MaxSide)

BombBound(sz) ==
  IF sz = Grid3x3 THEN MaxBombs3x3
  ELSE IF sz \in Sizes THEN MaxBombs
  ELSE 0

(* The bomb counts with which a grid is constructed: the low ones up to    *)
(* BombBound, and on the 3x3 grid also the high ones that leave at most    *)
(* MaxFree cells without a bomb.                                           *)
BombCounts(sz) ==
  (0..Min(BombBound(sz), sz[1] * sz[2]))
    \cup (IF sz = Grid3x3 THEN (sz[1] * sz[2] - MaxFree)..(sz[1] * sz[2]) ELSE {})

(* Every cell map Field::new can build for a size and a bomb count that    *)
(* index::sample accepts, one per outcome of the sampling.  (`@@ << >>`    *)
(* only makes the model checker tabulate the function once.)               *)
Fields ==
  [sz \in Sizes \cup {Grid3x3} \cup OpenSizes |->
     [bombs \in BombCounts(sz) |->
        {NewCells(sz, bomb_indices) : bomb_indices \in sample(sz[1] * sz[2], bombs)}]
       @@ << >>]
    @@ << >>

(* Pointer positions, in half pixels: the middle of every cell, one        *)
(* position just right of the grid, one just below it, and one left of the *)
(* window's origin.                                                        *)
MousePositions(sz) ==
  {<<2 * CELL_SIZE[1] * c[1] + 17, 2 * CELL_SIZE[2] * c[2] + 17>> : c \in Coords(sz)}
    \cup {<<2 * CELL_SIZE[1] * sz[1], 17>>,
          <<17, 2 * CELL_SIZE[2] * sz[2] + 1>>,
          <<-3, 17>>}

(***************************************************************************)
(* Field::new as called by main.  A bomb count above the number of cells   *)
(* makes index::sample panic before any cell is inserted; size and n_bombs *)
(* then hold the arguments of the failed call.                             *)
(***************************************************************************)
Init ==
  \E sz \in Sizes, bombs \in 0..MaxBombs :
    /\ size = sz
    /\ n_bombs = bombs
    /\ mouse = <<0, 0>>
    /\ event = "new"
    /\ IF SamplePanics(sz[1] * sz[2], bombs)
       THEN /\ status = "panicked"
            /\ cells = CellsAtSample(sz)
            /\ n_hidden = 0
       ELSE /\ status = "running"
            /\ cells \in Fields[sz][bombs]
            /\ n_hidden = sz[1] * sz[2]

(* Field::new as called by main, on the 3x3 grid.                          *)
Init3x3 ==
  \E bombs \in 0..MaxBombs3x3 :
    /\ size = Grid3x3
    /\ n_bombs = bombs
    /\ mouse = <<0, 0>>
    /\ event = "new"
    /\ status = "running"
    /\ cells \in Fields[Grid3x3][bombs]
    /\ n_hidden = Grid3x3[1] * Grid3x3[2]

(* Field::new as called by main, with no bombs, on the larger grids.       *)
InitOpen ==
  \E sz \in OpenSizes :
    /\ size = sz
    /\ n_bombs = 0
    /\ mouse = <<0, 0>>
    /\ event = "new"
    /\ status = "running"
    /\ cells \in Fields[sz][0]
    /\ n_hidden = sz[1] * sz[2]

(* Field::new as called by main, on the 3x3 grid nearly full of bombs.     *)
InitDense ==
  \E bombs \in (Grid3x3[1] * Grid3x3[2] - MaxFree)..(Grid3x3[1] * Grid3x3[2]) :
    /\ size = Grid3x3
    /\ n_bombs = bombs
    /\ mouse = <<0, 0>>
    /\ event = "new"
    /\ status = "running"
    /\ cells \in Fields[Grid3x3][bombs]
    /\ n_hidden = Grid3x3[1] * Grid3x3[2]

(* fn mouse_move                                                           *)
MouseMove ==
  /\ status = "running"
  /\ \E p \in MousePositions(size) : mouse' = p
  /\ event' = "move"
  /\ UNCHANGED <<cells, size, n_bombs, n_hidden, status>>

(* fn mouse_click, arm Button::Mouse(MouseButton::Left)                    *)
LeftClick ==
  /\ status = "running"
  /\ event' = "left"
  /\ LET c == ClickCoord(mouse)
     IN  IF c \notin DOMAIN cells
         THEN (* cell_mut_at: `get_mut(..).unwrap()` on None *)
              /\ status' = "panicked"
              /\ UNCHANGED <<cells, size, n_bombs, n_hidden, mouse>>
         ELSE LET f == reveal([cells |-> cells, n_hidden |-> n_hidden, entered |-> << >>],
                              size, c[1], c[2])
              IN  /\ IF f.cells[c].state = Bomb
                     THEN cells' = lose([f.cells EXCEPT ![c].state = DeathBomb])
                     ELSE IF f.n_hidden = n_bombs
                          THEN cells' = win(f.cells)
                          ELSE cells' = f.cells
                  /\ n_hidden' = f.n_hidden
                  /\ UNCHANGED <<size, n_bombs, mouse, status>>

(* reset without `self.mouse = last_mouse_pos`.                            *)
Reset_DropsMouse ==
  /\ status = "running"
  /\ event' = "reset"
  /\ cells' \in Fields[size][n_bombs]
  /\ n_hidden' = size[1] * size[2]
  /\ mouse' = <<0, 0>>
  /\ UNCHANGED <<size, n_bombs, status>>

(* fn mouse_click, arm Button::Keyboard(Key::R) => fn reset                *)
Reset ==
  /\ status = "running"
  /\ event' = "reset"
  /\ cells' \in Fields[size][n_bombs]
  /\ n_hidden' = size[1] * size[2]
  /\ UNCHANGED <<size, n_bombs, mouse, status>>

(* The arm `_` running reset.                                              *)
OtherPress_Resets ==
  /\ status = "running"
  /\ event' = "other"
  /\ cells' \in Fields[size][n_bombs]
  /\ n_hidden' = size[1] * size[2]
  /\ UNCHANGED <<size, n_bombs, mouse, status>>

(* fn mouse_click, arm `_ => ()`                                           *)
OtherPress ==
  /\ status = "running"
  /\ event' = "other"
  /\ UNCHANGED <<cells, size, n_bombs, n_hidden, mouse, status>>

Next == MouseMove \/ LeftClick \/ Reset \/ OtherPress

Spec == Init /\ [][Next]_vars

(* The same program started on the 3x3 grid.                               *)
Spec3x3 == Init3x3 /\ [][Next]_vars

(* The same program started on the 3x3 grid nearly full of bombs.          *)
SpecDense == InitDense /\ [][Next]_vars

(* The same program started on a grid without bombs.                       *)
SpecOpen == InitOpen /\ [][Next]_vars

(***************************************************************************)
(* Vocabulary of the properties.                                           *)
(***************************************************************************)
Running == status = "running"

HiddenCells(cs) == {c \in DOMAIN cs : cs[c].hidden}
BombCells(cs) == {c \in DOMAIN cs : cs[c].state \in {Bomb, DeathBomb}}
DeathBombCells(cs) == {c \in DOMAIN cs : cs[c].state = DeathBomb}

AllRevealed(cs) == HiddenCells(cs) = {}
AllHidden(cs) == HiddenCells(cs) = DOMAIN cs

(* The game's outcome as the display shows it: win and lose both unhide    *)
(* every cell, and only a loss leaves a DeathBomb.                         *)
Outcome(cs) ==
  IF HiddenCells(cs) # {} THEN "Playing"
  ELSE IF DeathBombCells(cs) # {} THEN "Lost"
  ELSE "Won"

(* The 8-neighbourhood on the grid, stated from the geometry.              *)
Abs(i) == IF i < 0 THEN -i ELSE i

Neighbours(sz, c) ==
  {d \in (0..(sz[1] - 1)) \X (0..(sz[2] - 1)) :
     /\ d # c
     /\ Abs(d[1] - c[1]) <= 1
     /\ Abs(d[2] - c[2]) <= 1}

BombNeighbours(cs, sz, c) == Cardinality(Neighbours(sz, c) \cap BombCells(cs))

CountsCorrect(cs, sz) ==
  \A c \in DOMAIN cs :
    cs[c].state \notin {Bomb, DeathBomb} =>
      /\ (cs[c].state = Empty) <=> (BombNeighbours(cs, sz, c) = 0)
      /\ BombNeighbours(cs, sz, c) >= 1 => cs[c].state = Value(BombNeighbours(cs, sz, c))

FullGrid(cs, sz) == DOMAIN cs = (0..(sz[1] - 1)) \X (0..(sz[2] - 1))

(* The transition is a left click that addresses the in-bounds cell c.     *)
LeftClickAt(c) == event' = "left" /\ Running /\ c = ClickCoord(mouse) /\ c \in DOMAIN cells

(***************************************************************************)
(* C1: in every reachable state, also after a win or a loss, n_hidden is   *)
(* the number of cells whose hidden flag is true.                          *)
(* Fails: win and lose unhide every cell and leave n_hidden as it was.     *)
(***************************************************************************)
C1_HiddenCounterExact == Running => n_hidden = Cardinality(HiddenCells(cells))

(***************************************************************************)
(* C2: whenever a field exists (the bomb count given at construction is    *)
(* at most width*height), exactly n_bombs cells are Bomb or DeathBomb,     *)
(* through every click and reset.                                          *)
(***************************************************************************)
C2_BombCount ==
  n_bombs <= size[1] * size[2] =>
    /\ FullGrid(cells, size)
    /\ Cardinality(BombCells(cells)) = n_bombs

C2_Witness ==
  /\ event = "left"
  /\ n_bombs = 3
  /\ size[1] * size[2] = 6
  /\ Cardinality(DeathBombCells(cells)) = 1
  /\ Cardinality(BombCells(cells)) = 3

(***************************************************************************)
(* C3: in every reachable state at most one cell is DeathBomb.             *)
(* Fails: after a loss, a click on another bomb makes it DeathBomb too.    *)
(***************************************************************************)
C3_AtMostOneDeathBomb == Cardinality(DeathBombCells(cells)) <= 1

(***************************************************************************)
(* C4: once the game is Won or Lost, a left click on an in-bounds cell     *)
(* leaves every cell's state and hidden flag unchanged.                    *)
(* Fails: a click on a Bomb of a finished game turns it into DeathBomb, so *)
(* a Won game becomes a Lost one.                                          *)
(***************************************************************************)
C4_TerminalUntilReset ==
  [][\A c \in DOMAIN cells :
       (Outcome(cells) # "Playing" /\ LeftClickAt(c)) => cells' = cells]_vars

(***************************************************************************)
(* C5: a left click on a hidden Bomb cell c makes c DeathBomb, unhides     *)
(* every cell of the grid, and leaves every other bomb cell Bomb.          *)
(***************************************************************************)
C5_LoseTransition ==
  [][\A c \in DOMAIN cells :
       (LeftClickAt(c) /\ cells[c].hidden /\ cells[c].state = Bomb) =>
         /\ cells'[c].state = DeathBomb
         /\ AllRevealed(cells')
         /\ \A d \in DOMAIN cells \ {c} :
              cells[d].state = Bomb => cells'[d].state = Bomb
         /\ Outcome(cells') = "Lost"]_vars

C5_Witness ==
  /\ event = "left"
  /\ Running
  /\ AllRevealed(cells)
  /\ Cardinality(DeathBombCells(cells)) = 1
  /\ \E d \in DOMAIN cells : cells[d].state = Bomb
  /\ n_hidden >= 2

(***************************************************************************)
(* C6: a left click during play on a non-bomb cell: if the hidden count    *)
(* after the reveal cascade equals n_bombs, every cell ends unhidden and   *)
(* no cell is DeathBomb (Won); otherwise the game stays in Playing and no  *)
(* bomb cell is revealed.                                                  *)
(***************************************************************************)
C6_WinTransition ==
  [][\A c \in DOMAIN cells :
       (LeftClickAt(c) /\ Outcome(cells) = "Playing"
          /\ cells[c].state \notin {Bomb, DeathBomb}) =>
         IF n_hidden' = n_bombs
         THEN /\ Outcome(cells') = "Won"
              /\ [d \in DOMAIN cells |-> cells'[d].state] = [d \in DOMAIN cells |-> cells[d].state]
         ELSE /\ Outcome(cells') = "Playing"
              /\ BombCells(cells') \subseteq HiddenCells(cells')
              /\ ~cells'[c].hidden]_vars

C6_Witness ==
  /\ event = "left"
  /\ Running
  /\ Outcome(cells) = "Won"
  /\ n_bombs >= 2
  /\ n_hidden = n_bombs
  /\ \E c \in DOMAIN cells : cells[c].state = Empty

(***************************************************************************)
(* C7: in a freshly constructed field every non-bomb cell is Value(n) with *)
(* n the number of bomb cells among its in-bounds 8-neighbours when n >= 1 *)
(* and Empty exactly when that number is 0; every cell is hidden and       *)
(* n_hidden is width*height.                                               *)
(***************************************************************************)
C7_ConstructedField ==
  (event = "new" /\ Running) =>
    /\ FullGrid(cells, size)
    /\ CountsCorrect(cells, size)
    /\ AllHidden(cells)
    /\ n_hidden = size[1] * size[2]

C7_Witness ==
  /\ event = "new"
  /\ Running
  /\ size = <<3, 2>>
  /\ n_bombs = 3
  /\ cells[<<1, 0>>].state = Value(3)
  /\ cells[<<0, 1>>].state = Value(2)

(***************************************************************************)
(* C8 as stated: construction with more bombs than cells fails with an     *)
(* InvalidConfiguration error value, before any grid is built.             *)
(* Fails: Field::new returns a Field, not a Result; the failure is the     *)
(* panic of the index sampling.                                            *)
(***************************************************************************)
C8_InvalidConfigurationError ==
  (event = "new" /\ n_bombs > size[1] * size[2]) =>
    /\ status = "InvalidConfiguration"
    /\ cells = << >>

(***************************************************************************)
(* C8 amended: construction with more bombs than cells fails by a panic    *)
(* (raised by the index sampling) before any cell is inserted: no field    *)
(* comes into existence and no event is processed after it.                *)
(***************************************************************************)
C8_PanicBeforeGrid ==
  (n_bombs > size[1] * size[2]) =>
    /\ status = "panicked"
    /\ event = "new"
    /\ cells = << >>

C8_Witness ==
  /\ n_bombs = 3
  /\ size = <<2, 1>>
  /\ status = "panicked"

(***************************************************************************)
(* C9: a left click whose pointer maps outside the grid never crashes the  *)
(* program.                                                                *)
(* Fails: cell_mut_at unwraps the failed lookup and panics.                *)
(***************************************************************************)
C9_OutOfBoundsClickNoCrash ==
  (event = "left" /\ ClickCoord(mouse) \notin DOMAIN cells) => status = "running"

(***************************************************************************)
(* C10: reset, from any state, keeps the size, the bomb count and the      *)
(* pointer position, and yields a field with exactly n_bombs bombs, every  *)
(* cell hidden, n_hidden = width*height, no DeathBomb and correct          *)
(* neighbour counts.                                                       *)
(***************************************************************************)
C10_Reset ==
  /\ [][event' = "reset" =>
          /\ size' = size
          /\ n_bombs' = n_bombs
          /\ mouse' = mouse]_vars
  /\ [](event = "reset" =>
          /\ Running
          /\ FullGrid(cells, size)
          /\ Cardinality(BombCells(cells)) = n_bombs
          /\ DeathBombCells(cells) = {}
          /\ AllHidden(cells)
          /\ n_hidden = size[1] * size[2]
          /\ CountsCorrect(cells, size))

C10_Witness ==
  /\ event = "reset"
  /\ Running
  /\ mouse = <<81, 17>>
  /\ n_bombs = 2
  /\ size = <<3, 2>>
  /\ AllHidden(cells)

(***************************************************************************)
(* Vocabulary of the reveal claims.                                        *)
(***************************************************************************)
(* The field as reveal sees it, and the cell the pointer addresses.        *)
FieldNow == [cells |-> cells, n_hidden |-> n_hidden, entered |-> << >>]
Pointed == ClickCoord(mouse)
PointsAtCell == Running /\ Pointed \in DOMAIN cells

(* The hidden Empty cells reachable from the cells of S through chains of  *)
(* 8-adjacent hidden Empty cells.                                          *)
RECURSIVE EmptyRegion(_, _, _)
EmptyRegion(cs, sz, S) ==
  LET T == S \cup {d \in DOMAIN cs :
                     /\ cs[d].hidden
                     /\ cs[d].state = Empty
                     /\ \E e \in S : d \in Neighbours(sz, e)}
  IN  IF T = S THEN S ELSE EmptyRegion(cs, sz, T)

(* What a reveal of the hidden cell c is to unhide.                        *)
FloodSet(cs, sz, c) ==
  IF cs[c].state = Empty
  THEN {c} \cup UNION {Neighbours(sz, e) : e \in EmptyRegion(cs, sz, {c})}
  ELSE {c}

Reverse(v) == [i \in 1..Len(v) |-> v[Len(v) + 1 - i]]

(* fn reveal with the neighbours visited in the opposite order.            *)
RECURSIVE RevealBackwards(_, _, _, _), RevealEachBackwards(_, _, _)
RevealBackwards(f, sz, x, y) ==
  IF ~f.cells[<<x, y>>].hidden THEN f
  ELSE LET f1 == [f EXCEPT !.cells[<<x, y>>].hidden = FALSE,
                           !.entered = Append(@, <<x, y>>)]
           f2 == IF f1.cells[<<x, y>>].state = Empty
                 THEN RevealEachBackwards(f1, sz, Reverse(adjacent_coords(sz, x, y)))
                 ELSE f1
       IN  [f2 EXCEPT !.n_hidden = Decrement(f2.n_hidden)]

RevealEachBackwards(f, sz, v) ==
  IF v = <<>> THEN f
  ELSE RevealEachBackwards(RevealBackwards(f, sz, Head(v)[1], Head(v)[2]), sz, Tail(v))

(***************************************************************************)
(* C11: a reveal of the hidden cell c the pointer addresses unhides c and, *)
(* if c is Empty, every 8-neighbour of the Empty cells reachable from c    *)
(* through hidden Empty cells, and nothing else; no cell's state changes;  *)
(* visiting the neighbours in the opposite order gives the same cells.     *)
(***************************************************************************)
C11_FloodFill ==
  (PointsAtCell /\ cells[Pointed].hidden) =>
    LET g == reveal(FieldNow, size, Pointed[1], Pointed[2])
    IN  /\ HiddenCells(g.cells) = HiddenCells(cells) \ FloodSet(cells, size, Pointed)
        /\ \A d \in DOMAIN cells : g.cells[d].state = cells[d].state
        /\ g.cells = RevealBackwards(FieldNow, size, Pointed[1], Pointed[2]).cells

(* A flood has run on the 3x3 grid: an Empty cell and a numbered border    *)
(* cell are unhidden, and a non-bomb cell beyond the border is still       *)
(* hidden.                                                                 *)
C11_Witness ==
  /\ size = Grid3x3
  /\ event = "left"
  /\ Outcome(cells) = "Playing"
  /\ \E c \in DOMAIN cells : ~cells[c].hidden /\ cells[c].state = Empty
  /\ \E c \in DOMAIN cells : ~cells[c].hidden /\ cells[c].state.tag = "Value" /\ c # Pointed
  /\ \E c \in DOMAIN cells : cells[c].hidden /\ cells[c].state.tag = "Value"

(***************************************************************************)
(* C12: a reveal of an unhidden cell changes nothing; a reveal of a hidden *)
(* cell lowers n_hidden by exactly the number of cells it unhides and      *)
(* hides none; a second reveal of the same coordinate changes nothing.     *)
(***************************************************************************)
C12_RevealAccounting ==
  PointsAtCell =>
    LET g == reveal(FieldNow, size, Pointed[1], Pointed[2])
        flipped == HiddenCells(cells) \ HiddenCells(g.cells)
    IN  /\ ~cells[Pointed].hidden => (g.cells = cells /\ g.n_hidden = n_hidden)
        /\ HiddenCells(g.cells) \subseteq HiddenCells(cells)
        /\ n_hidden - g.n_hidden = Cardinality(flipped)
        /\ cells[Pointed].hidden => Pointed \in flipped
        /\ LET h == reveal([g EXCEPT !.entered = << >>], size, Pointed[1], Pointed[2])
           IN  h.cells = g.cells /\ h.n_hidden = g.n_hidden

(* A click during play has unhidden several cells at once, and the pointer *)
(* now rests on an unhidden cell.                                          *)
C12_Witness ==
  /\ event = "left"
  /\ PointsAtCell
  /\ Outcome(cells) = "Playing"
  /\ ~cells[Pointed].hidden
  /\ cells[Pointed].state = Empty
  /\ n_hidden <= size[1] * size[2] - 4
  /\ n_hidden = Cardinality(HiddenCells(cells))

(***************************************************************************)
(* C13: in one reveal cascade every cell is entered with hidden = true at  *)
(* most once, each such entry is a cell that was hidden before the call    *)
(* and executes one decrement, so the cascade does at most width*height    *)
(* steps of work.                                                          *)
(***************************************************************************)
C13_RevealTerminates ==
  PointsAtCell =>
    LET g == reveal(FieldNow, size, Pointed[1], Pointed[2])
        v == g.entered
    IN  /\ \A i, j \in 1..Len(v) : v[i] = v[j] => i = j
        /\ \A i \in 1..Len(v) : cells[v[i]].hidden
        /\ Len(v) <= size[1] * size[2]
        /\ Len(v) = n_hidden - g.n_hidden

(* One click has flooded the whole 3x3 grid without bombs.                 *)
C13_Witness ==
  /\ size = Grid3x3
  /\ n_bombs = 0
  /\ event = "left"
  /\ n_hidden = 0
  /\ AllRevealed(cells)

(***************************************************************************)
(* C14: for the in-bounds cell (x, y) the pointer addresses,               *)
(* adjacent_coords returns exactly the in-bounds coordinates at distance   *)
(* at most 1 in x and in y other than (x, y) itself, each once, in         *)
(* row-major order; (x, y) is in turn adjacent to each of them; on a grid  *)
(* of at least 2x2 a corner cell has 3 and any other border cell 5         *)
(* neighbours, and an interior cell has 8.                                 *)
(***************************************************************************)
RowMajorBefore(p, q) == p[2] < q[2] \/ (p[2] = q[2] /\ p[1] < q[1])

OnBorderX(sz, c) == c[1] = 0 \/ c[1] = sz[1] - 1
OnBorderY(sz, c) == c[2] = 0 \/ c[2] = sz[2] - 1

C14_Adjacency ==
  PointsAtCell =>
    LET v == adjacent_coords(size, Pointed[1], Pointed[2])
        in_seq(q, p) ==
          \E i \in 1..Len(adjacent_coords(size, q[1], q[2])) :
            adjacent_coords(size, q[1], q[2])[i] = p
    IN  /\ {v[i] : i \in 1..Len(v)} = Neighbours(size, Pointed)
        /\ \A i \in 1..(Len(v) - 1) : RowMajorBefore(v[i], v[i + 1])
        /\ \A i \in 1..Len(v) : in_seq(v[i], Pointed)
        /\ (size[1] >= 2 /\ size[2] >= 2) =>
             Len(v) = IF OnBorderX(size, Pointed) /\ OnBorderY(size, Pointed) THEN 3
                      ELSE IF OnBorderX(size, Pointed) \/ OnBorderY(size, Pointed) THEN 5
                      ELSE 8

(* The pointer rests on the interior cell of a 3x3 grid that a click has   *)
(* flooded through adjacent_coords.                                        *)
C14_Witness ==
  /\ size = <<3, 3>>
  /\ PointsAtCell
  /\ Pointed = <<1, 1>>
  /\ Len(adjacent_coords(size, 1, 1)) = 8
  /\ AllRevealed(cells)

C16_BombsHiddenWhilePlaying ==
  (Running /\ Outcome(cells) = "Playing") =>
    /\ DeathBombCells(cells) = {}
    /\ BombCells(cells) \subseteq HiddenCells(cells)
    /\ n_hidden = Cardinality(HiddenCells(cells))
    /\ n_hidden >= n_bombs
    /\ (n_hidden = n_bombs) <=> (HiddenCells(cells) = BombCells(cells))

(* Play goes on after a cascade: several cells are unhidden, among them a  *)
(* numbered one next to a bomb, and bombs and other cells are hidden.      *)
C16_Witness ==
  /\ event = "left"
  /\ Running
  /\ Outcome(cells) = "Playing"
  /\ n_bombs >= 2
  /\ n_hidden > n_bombs
  /\ Cardinality(DOMAIN cells \ HiddenCells(cells)) >= 3
  /\ \E c \in DOMAIN cells : ~cells[c].hidden /\ cells[c].state.tag = "Value"

(***************************************************************************)
(* C17: between events, every unhidden Empty cell has all of its in-bounds *)
(* 8-neighbours unhidden.                                                  *)
(***************************************************************************)
C17_EmptyCellsOpenNeighbours ==
  Running =>
    \A c \in DOMAIN cells :
      (~cells[c].hidden /\ cells[c].state = Empty) =>
        \A d \in Neighbours(size, c) : ~cells[d].hidden

(* Play goes on on the 3x3 grid with an unhidden Empty cell whose          *)
(* neighbours are unhidden while other cells are still hidden.             *)
C17_Witness ==
  /\ size = Grid3x3
  /\ event = "left"
  /\ Outcome(cells) = "Playing"
  /\ \E c \in DOMAIN cells :
       /\ ~cells[c].hidden
       /\ cells[c].state = Empty
       /\ Cardinality(Neighbours(size, c)) >= 5

(***************************************************************************)
(* C18: a pointer move, a click or another press never hides an unhidden   *)
(* cell and never raises n_hidden; only reset sets the hidden flags back   *)
(* to true and n_hidden back to width*height.                              *)
(***************************************************************************)
C18_RevealedStayRevealed ==
  [][/\ event' # "reset" =>
          /\ DOMAIN cells' = DOMAIN cells
          /\ HiddenCells(cells') \subseteq HiddenCells(cells)
          /\ n_hidden' <= n_hidden
     /\ event' = "reset" =>
          /\ AllHidden(cells')
          /\ n_hidden' = size[1] * size[2]]_vars

(* A click on an unhidden cell of a game in play has left it unhidden.     *)
C18_Witness ==
  /\ event = "left"
  /\ PointsAtCell
  /\ Outcome(cells) = "Playing"
  /\ ~cells[Pointed].hidden
  /\ Cardinality(DOMAIN cells \ HiddenCells(cells)) >= 2
  /\ n_hidden < size[1] * size[2]

(***************************************************************************)
(* C19: `n_hidden -= 1` is never executed at 0: in every reachable state,  *)
(* clicks after a win or a loss included, n_hidden is within               *)
(* 0..width*height.                                                        *)
(***************************************************************************)
C19_NoUnderflow ==
  Running => (n_hidden >= 0 /\ n_hidden <= size[1] * size[2])

(* Clicks went on after the game was over: two bombs were hit.             *)
C19_Witness ==
  /\ event = "left"
  /\ Running
  /\ Cardinality(DeathBombCells(cells)) >= 2
  /\ AllRevealed(cells)
  /\ n_hidden >= 1

(***************************************************************************)
(* C20: a pointer move changes nothing but the recorded pointer position,  *)
(* and a press that is neither the left button nor the reset key changes   *)
(* nothing: cells, n_hidden, n_bombs and the size stay as they were.       *)
(***************************************************************************)
C20_FrameOfOtherEvents ==
  [][/\ event' = "move" => UNCHANGED <<cells, size, n_bombs, n_hidden, status>>
     /\ event' = "other" => UNCHANGED <<cells, size, n_bombs, n_hidden, mouse, status>>]_vars

(* Another press arrived in the middle of a game, after a move.            *)
C20_Witness ==
  /\ event = "other"
  /\ Running
  /\ mouse # <<0, 0>>
  /\ Outcome(cells) = "Playing"
  /\ n_hidden < size[1] * size[2]

====
